---------------------------- MODULE Spec2Model ----------------------------
(***************************************************************************)
(* A model of tenper (src/tenper.py): a wrapper that keeps one YAML file   *)
(* per environment under ~/.tenper, an optional virtualenv per session     *)
(* under ~/.virtualenvs, and starts a tmux session from the file.          *)
(*                                                                         *)
(* Names that pass through the YAML file (environment and session names)   *)
(* are sequences of characters, so that writing a name into the template   *)
(* and loading it back is computed, not assumed.  Other strings (window    *)
(* names, pane commands, paths of binaries) are plain strings.             *)
(***************************************************************************)
EXTENDS Integers, Sequences, FiniteSets, TLC

VARIABLES
    configsDir,  \* whether the directory ~/.tenper exists
    files,       \* environment name -> content of ~/.tenper/<name>.yml, or NoFile
    venvDirs,    \* names of the directories that exist under ~/.virtualenvs
    sessions,    \* names of the sessions the tmux server holds
    last,        \* what the last invocation of the tool did (history)
    procs        \* the concurrent invocations of start (SpecRace only)

vars == <<configsDir, files, venvDirs, sessions, last, procs>>

----------------------------------------------------------------------------
(* Bounds of the inputs. *)

MaxWindows == 2   \* windows of a configuration
MaxPanes == 3     \* panes of a configuration, all windows together
NumProcs == 2

----------------------------------------------------------------------------
(* Names. *)

demo == <<"d", "e", "m", "o">>
web == <<"w", "e", "b">>
fortytwo == <<"4", "2">>

EnvNames == {demo, fortytwo}

----------------------------------------------------------------------------
(* YAML scalars: what yaml.load makes of the text of a plain scalar, and    *)
(* what str.format makes of the loaded value.                               *)

Digits == <<"0", "1", "2", "3", "4", "5", "6", "7", "8", "9">>

IsDigit(c) == \E d \in 1..10 : Digits[d] = c

DigitVal(c) == (CHOOSE d \in 1..10 : Digits[d] = c) - 1

RECURSIVE DecimalVal(_)
DecimalVal(text) ==
    IF text = <<>> THEN 0
    ELSE 10 * DecimalVal(SubSeq(text, 1, Len(text) - 1)) + DigitVal(text[Len(text)])

RECURSIVE DecimalText(_)
DecimalText(n) ==
    IF n < 10 THEN <<Digits[n + 1]>>
    ELSE Append(DecimalText(n \div 10), Digits[(n % 10) + 1])

\* The inputs are plain words and decimal integers without a leading zero.
IsYamlInt(text) == text # <<>> /\ \A i \in 1..Len(text) : IsDigit(text[i])

YamlScalar(text) ==
    IF IsYamlInt(text)
    THEN [type |-> "int", str |-> <<>>, int |-> DecimalVal(text)]
    ELSE [type |-> "str", str |-> text, int |-> 0]

StrValue(text) == [type |-> "str", str |-> text, int |-> 0]

\* '{}'.format(value)
Format(value) == IF value.type = "int" THEN DecimalText(value.int) ELSE value.str

----------------------------------------------------------------------------
(* Files and configurations. *)

NoFile == [exists |-> FALSE]
Unset == "unset"

NoVenvKey == [defined |-> FALSE, python |-> Unset, site |-> Unset]
EmptyVenv == [defined |-> TRUE, python |-> Unset, site |-> Unset]
TemplateVenv == [defined |-> TRUE, python |-> "/usr/bin/python", site |-> "false"]
SiteOnlyVenv == [defined |-> TRUE, python |-> Unset, site |-> "true"]

Window(name, layout, panes) == [name |-> name, layout |-> layout, panes |-> panes]

FileContent(sessionText, venv, root, windows) ==
    [exists |-> TRUE, session |-> sessionText, virtualenv |-> venv,
     root |-> root, windows |-> windows]

\* config_template.format(env=env): the name goes into the text unquoted.
ConfigTemplate(env) ==
    FileContent(env, TemplateVenv, "$HOME",
                <<Window("One", "", <<"ls -l">>),
                  Window("Two", "main-vertical", <<"ls", "vim", "top">>)>>)

\* yaml.load of a file
YamlLoad(content) ==
    [session |-> YamlScalar(content.session),
     virtualenv |-> content.virtualenv,
     root |-> content.root,
     windows |-> content.windows]

NoConfig ==
    [session |-> StrValue(<<>>), virtualenv |-> NoVenvKey, root |-> "", windows |-> <<>>]

\* A weaker test: the key is there ('virtualenv' in config).
VenvKeyPresent(venv) == venv.defined

\* bool(config.get('virtualenv')): the key is there and its map is not empty.
VenvTruthy(venv) == venv.defined /\ (venv.python # Unset \/ venv.site # Unset)

----------------------------------------------------------------------------
(* Paths and external commands. *)

NoPath == [root |-> "", name |-> <<>>, sub |-> ""]
ConfigPath(env) == [root |-> "~/.tenper", name |-> env, sub |-> ".yml"]
VenvPath(name) == [root |-> "~/.virtualenvs", name |-> name, sub |-> ""]
ActivatePath(name) == [root |-> "~/.virtualenvs", name |-> name, sub |-> "bin/activate"]

NoTarget == [session |-> <<>>, window |-> -1, pane |-> -1]
SessionTarget(s) == [session |-> s, window |-> -1, pane |-> -1]
WindowTarget(s, w) == [session |-> s, window |-> w, pane |-> -1]
PaneTarget(s, w, p) == [session |-> s, window |-> w, pane |-> p]

NoArg == [kind |-> "", text |-> "", path |-> NoPath]

Cmd(prog, verb, target, arg) ==
    [prog |-> prog, verb |-> verb, target |-> target, arg |-> arg]

Tmux(verb, target, arg) == Cmd("tmux", verb, target, arg)

SendKeys(target, kind, text, path) ==
    Tmux("send-keys", target, [kind |-> kind, text |-> text, path |-> path])

VirtualenvCmd(python, flag, dir) ==
    Cmd("virtualenv", "-p", NoTarget, [kind |-> flag, text |-> python, path |-> dir])

EditorCmd(file) ==
    Cmd("editor", "", NoTarget, [kind |-> "", text |-> "", path |-> file])

----------------------------------------------------------------------------
(* External tools. *)

\* tmux has-session -t <session>: exit code 0 when the server holds it.
HasSession(running, session) == IF session \in running THEN 0 ELSE 1

\* tmux new-session -d -s <session>: fails on a duplicate name.
NewSessionCode(running, session) == IF session \in running THEN 1 ELSE 0

\* The effect of one command on the tmux server. attach-session returns when
\* the user detaches (the session stays) or ends the session (keep = FALSE).
TmuxEffect(running, cmd, keep) ==
    IF cmd.prog # "tmux" THEN running
    ELSE IF cmd.verb = "new-session" THEN running \cup {cmd.target.session}
    ELSE IF cmd.verb = "attach-session" /\ ~keep THEN running \ {cmd.target.session}
    ELSE running

\* The virtualenv tool makes the directory unless it fails (toolOk = FALSE);
\* its exit code is not looked at.
VirtualenvEffect(dirs, name, toolOk) == IF toolOk THEN dirs \cup {name} ELSE dirs

----------------------------------------------------------------------------
(* config_for and confirm_virtualenv. *)

\* A resolver that falls back to the template instead of raising.
config_forDefault(fs, env) ==
    [error |-> "none", checked |-> ConfigPath(env),
     config |-> YamlLoad(IF fs[env].exists THEN fs[env] ELSE ConfigTemplate(env))]

config_for(fs, env) ==
    IF fs[env].exists
    THEN [error |-> "none", checked |-> ConfigPath(env), config |-> YamlLoad(fs[env])]
    ELSE [error |-> "ConfigNotFound", checked |-> ConfigPath(env), config |-> NoConfig]

PythonBinary(venv) == IF venv.python = Unset THEN "/usr/bin/python" ELSE venv.python

SitePackagesFlag(venv) ==
    IF venv.site = "true" THEN "--system-site-packages" ELSE "--no-site-packages"

ConfirmResult(cmds, dirs, error) == [cmds |-> cmds, venvDirs |-> dirs, error |-> error]

\* shutil.rmtree(path): raises when the directory is not there.
RmtreeFails(dirs, name) == name \notin dirs

confirm_virtualenv(config, delete_first, dirs, toolOk) ==
    IF ~VenvTruthy(config.virtualenv) THEN ConfirmResult(<<>>, dirs, "none")
    ELSE IF config.session.type # "str"
    THEN ConfirmResult(<<>>, dirs, "TypeError")     \* os.path.join(str, int)
    ELSE LET name == config.session.str IN
         IF name \in dirs /\ ~delete_first THEN ConfirmResult(<<>>, dirs, "none")
         ELSE IF delete_first /\ RmtreeFails(dirs, name)
         THEN ConfirmResult(<<>>, dirs, "rmtree")
         ELSE LET cleared == IF delete_first THEN dirs \ {name} ELSE dirs IN
              ConfirmResult(
                  <<VirtualenvCmd(PythonBinary(config.virtualenv),
                                  SitePackagesFlag(config.virtualenv),
                                  VenvPath(name))>>,
                  VirtualenvEffect(cleared, name, toolOk),
                  "none")

----------------------------------------------------------------------------
(* start: the commands of a new session (lines 216-273). *)

\* A pane loop that sends the command of every pane.
PaneHasCommandAlways(pane) == TRUE

\* if pane: a pane command is sent when the string is not empty.
PaneHasCommand(pane) == pane # ""

\* if window.get('layout')
WindowHasLayout(window) == window.layout # ""

\* A pane loop that changes directory before it activates the virtualenv.
PaneCommandsCdFirst(config, session, index, pindex, pane) ==
    (IF pindex # 0
     THEN <<Tmux("split-window", PaneTarget(session, index, 0), NoArg)>>
     ELSE <<>>)
    \o <<SendKeys(PaneTarget(session, index, pindex), "cd", config.root, NoPath)>>
    \o (IF VenvTruthy(config.virtualenv)
        THEN <<SendKeys(PaneTarget(session, index, pindex), "source", "",
                        ActivatePath(session))>>
        ELSE <<>>)
    \o (IF pane # ""
        THEN <<SendKeys(PaneTarget(session, index, pindex), "command", pane, NoPath)>>
        ELSE <<>>)

\* One turn of the pane loop.
PaneCommands(config, session, index, pindex, pane) ==
    (IF pindex # 0
     THEN <<Tmux("split-window", PaneTarget(session, index, 0), NoArg)>>
     ELSE <<>>)
    \o (IF VenvTruthy(config.virtualenv)
        THEN <<SendKeys(PaneTarget(session, index, pindex), "source", "",
                        ActivatePath(session))>>
        ELSE <<>>)
    \o <<SendKeys(PaneTarget(session, index, pindex), "cd", config.root, NoPath)>>
    \o (IF PaneHasCommand(pane)
        THEN <<SendKeys(PaneTarget(session, index, pindex), "command", pane, NoPath)>>
        ELSE <<>>)

RECURSIVE PaneLoop(_, _, _, _, _)
PaneLoop(config, session, index, pindex, acc) ==
    LET panes == config.windows[index + 1].panes IN
    IF pindex >= Len(panes) THEN acc
    ELSE PaneLoop(config, session, index, pindex + 1,
                  acc \o PaneCommands(config, session, index, pindex, panes[pindex + 1]))

\* One turn of the window loop.
WindowCommands(config, session, index) ==
    LET window == config.windows[index + 1]
        target == WindowTarget(session, index)
    IN  PaneLoop(config, session, index, 0,
                 <<IF index = 0
                   THEN Tmux("rename-window", target,
                             [kind |-> "name", text |-> window.name, path |-> NoPath])
                   ELSE Tmux("new-window", target,
                             [kind |-> "name", text |-> window.name, path |-> NoPath])>>)
        \o (IF WindowHasLayout(window)
            THEN <<Tmux("select-layout", target,
                        [kind |-> "layout", text |-> window.layout, path |-> NoPath])>>
            ELSE <<>>)
        \o <<Tmux("select-pane", PaneTarget(session, index, 0), NoArg)>>

RECURSIVE WindowLoop(_, _, _, _)
WindowLoop(config, session, index, acc) ==
    IF index >= Len(config.windows) THEN acc
    ELSE WindowLoop(config, session, index + 1,
                    acc \o WindowCommands(config, session, index))

AttachCommand(session) == Tmux("attach-session", SessionTarget(session), NoArg)

\* A start that gives up when new-session fails.
AfterNewSessionChecked(code, rest) == IF code = 0 THEN rest ELSE <<>>

\* What follows new-session: its exit code is not looked at.
AfterNewSession(code, rest) == rest

NewSessionCommand(config) ==
    Tmux("new-session", SessionTarget(Format(config.session)), NoArg)

\* The commands that follow new-session (lines 219-273).
SessionSetup(config) ==
    LET session == Format(config.session) IN
    (IF VenvTruthy(config.virtualenv)
     THEN <<Tmux("set-environment", SessionTarget(session),
                 [kind |-> "venv", text |-> "", path |-> ActivatePath(session)])>>
     ELSE <<>>)
    \o WindowLoop(config, session, 0, <<>>)
    \o <<AttachCommand(session)>>

\* A short circuit without its return: the attach is followed by new-session.
CommandsAfterProbeFallThrough(config, code) ==
    IF code = 0
    THEN <<Tmux("attach-session", SessionTarget(Format(config.session)), NoArg),
           Tmux("new-session", SessionTarget(Format(config.session)), NoArg)>>
    ELSE <<Tmux("new-session", SessionTarget(Format(config.session)), NoArg)>>

\* The commands after the probe, by its exit code: a preexisting session is
\* attached to, anything else starts a new one.
CommandsAfterProbe(config, code) ==
    IF code = 0 THEN <<AttachCommand(Format(config.session))>>
    ELSE <<NewSessionCommand(config)>>

ProbeCommand(config) ==
    Tmux("has-session", SessionTarget(Format(config.session)), NoArg)

RECURSIVE TmuxEffects(_, _, _)
TmuxEffects(running, cmds, keep) ==
    IF cmds = <<>> THEN running
    ELSE TmuxEffects(TmuxEffect(running, Head(cmds), keep), Tail(cmds), keep)

----------------------------------------------------------------------------
(* The history of the last invocation. *)

Snapshot ==
    [configsDir |-> configsDir, files |-> files, venvDirs |-> venvDirs,
     sessions |-> sessions]

NoResponse == <<>>

Invocation(op, env, resp, config, error, checked, cmds, prompts, probe, output) ==
    [op |-> op, env |-> env, resp |-> resp, config |-> config, error |-> error,
     checked |-> checked, cmds |-> cmds, prompts |-> prompts, probe |-> probe,
     output |-> output, before |-> Snapshot]

\* edit records whether the user saved something over the file.
EditInvocation(env, saved) ==
    [Invocation("edit", env, NoResponse, NoConfig, "none", ConfigPath(env),
                <<EditorCmd(ConfigPath(env))>>, <<>>, -1, {})
     EXCEPT !.output = IF saved.exists THEN {<<"s", "a", "v", "e", "d">>} ELSE {}]

NoInvocation ==
    [op |-> "none", env |-> <<>>, resp |-> NoResponse, config |-> NoConfig,
     error |-> "none", checked |-> NoPath, cmds |-> <<>>, prompts |-> <<>>,
     probe |-> -1, output |-> {},
     before |-> [configsDir |-> FALSE, files |-> [e \in EnvNames |-> NoFile],
                 venvDirs |-> {}, sessions |-> {}]]

----------------------------------------------------------------------------
(* The operations of the command line. *)

\* start(env), run to its end. toolOk: whether the virtualenv tool succeeds;
\* keep: whether the session outlives the attach.
StartCommands(config, confirmed, running) ==
    LET session == Format(config.session)
        code == HasSession(running, session)
        after == CommandsAfterProbe(config, code)
    IN  confirmed \o <<ProbeCommand(config)>> \o after
        \o (IF code = 0 THEN <<>>
            ELSE AfterNewSession(NewSessionCode(running, session), SessionSetup(config)))

start(env, toolOk, keep) ==
    LET found == config_for(files, env)
        confirm == confirm_virtualenv(found.config, FALSE, venvDirs, toolOk)
        failed == found.error # "none" \/ confirm.error # "none"
        code == IF failed THEN -1 ELSE HasSession(sessions, Format(found.config.session))
        cmds == IF failed THEN <<>>
                ELSE StartCommands(found.config, confirm.cmds, sessions)
    IN  /\ venvDirs' = IF found.error = "none" THEN confirm.venvDirs ELSE venvDirs
        /\ sessions' = TmuxEffects(sessions, cmds, keep)
        /\ last' = Invocation("start", env, NoResponse, found.config,
                              IF found.error # "none" THEN found.error ELSE confirm.error,
                              found.checked, cmds,
                              IF code = 0 THEN <<"Session already exists: attaching.">>
                              ELSE <<>>,
                              code, {})
        /\ UNCHANGED <<configsDir, files, procs>>

rebuild(env, toolOk) ==
    LET found == config_for(files, env)
        confirm == confirm_virtualenv(found.config, TRUE, venvDirs, toolOk)
    IN  /\ venvDirs' = IF found.error = "none" THEN confirm.venvDirs ELSE venvDirs
        /\ last' = Invocation("rebuild", env, NoResponse, found.config,
                              IF found.error # "none" THEN found.error ELSE confirm.error,
                              found.checked,
                              IF found.error = "none" THEN confirm.cmds ELSE <<>>,
                              <<>>, -1, {})
        /\ UNCHANGED <<configsDir, files, sessions, procs>>

\* edit(env). saved: what the editor writes over the file, NoFile when the
\* user leaves the file as it is.
edit(env, saved) ==
    LET written == IF files[env].exists THEN files[env] ELSE ConfigTemplate(env)
    IN  /\ configsDir' = TRUE
        /\ files' = [files EXCEPT ![env] = IF saved.exists THEN saved ELSE written]
        /\ last' = EditInvocation(env, saved)
        /\ UNCHANGED <<venvDirs, sessions, procs>>

\* str.strip() of the answer to a prompt
IsSpace(c) == c \in {" ", "\t", "\n"}

RECURSIVE LStrip(_)
LStrip(text) ==
    IF text # <<>> /\ IsSpace(Head(text)) THEN LStrip(Tail(text)) ELSE text

RECURSIVE RStrip(_)
RStrip(text) ==
    IF text # <<>> /\ IsSpace(text[Len(text)])
    THEN RStrip(SubSeq(text, 1, Len(text) - 1)) ELSE text

Strip(text) == RStrip(LStrip(text))

Affirmative == {<<"y", "e", "s">>, <<"Y", "E", "S">>, <<"y">>, <<"Y">>}

\* The directory delete looks for: os.path.join(virtualenvs, env).
DeleteVenvName(env) == env

\* A clean-up that removes the directory with what is in it.
RmdirConfigsForced(dir, fs) == FALSE

\* os.rmdir(configs) in try/except: removes the directory when it is empty.
\* The value is whether the directory is there afterwards.
RmdirConfigs(dir, fs) == dir /\ \E e \in EnvNames : fs[e].exists

delete(env, resp) ==
    LET name == DeleteVenvName(env)
        prompted == name \in venvDirs
        removeVenv == prompted /\ Strip(resp) \in Affirmative
        removed == [files EXCEPT ![env] = NoFile]
    IN  /\ venvDirs' = IF removeVenv THEN venvDirs \ {name} ELSE venvDirs
        /\ files' = removed
        /\ configsDir' = IF files[env].exists THEN RmdirConfigs(configsDir, removed)
                         ELSE configsDir
        /\ last' = Invocation("del", env, IF prompted THEN resp ELSE NoResponse,
                              NoConfig,
                              IF files[env].exists THEN "none" ELSE "OSError",
                              ConfigPath(env), <<>>,
                              IF prompted THEN <<VenvPath(name)>> ELSE <<>>,
                              -1, {})
        /\ UNCHANGED <<sessions, procs>>

list_envs ==
    /\ last' = Invocation("list", <<>>, NoResponse, NoConfig, "none", NoPath, <<>>,
                          <<>>, -1,
                          IF configsDir THEN {e \in EnvNames : files[e].exists}
                          ELSE {<<"N", "o", "n", "e", ".">>})
    /\ UNCHANGED <<configsDir, files, venvDirs, sessions, procs>>

----------------------------------------------------------------------------
(* The tool used by one user, one invocation after the other. *)

MainWindow == Window("Main", "", <<"ls -l">>)

\* What the user may leave in a file when the editor closes.
EditorSaves ==
    {FileContent(s, v, "/srv/app", <<MainWindow>>) :
        s \in {demo, web}, v \in {NoVenvKey, EmptyVenv, SiteOnlyVenv}}

Responses ==
    {<<"y">>, <<"Y">>, <<"y", "e", "s">>, <<"Y", "E", "S">>,
     <<" ", "y", "e", "s", "\n">>, <<"n", "o">>, <<>>}

Init ==
    /\ configsDir = FALSE
    /\ files = [e \in EnvNames |-> NoFile]
    /\ venvDirs = {}
    /\ sessions = {}
    /\ last = NoInvocation
    /\ procs = <<>>

Next ==
    \/ \E env \in EnvNames, toolOk \in BOOLEAN, keep \in BOOLEAN : start(env, toolOk, keep)
    \/ \E env \in EnvNames, toolOk \in BOOLEAN : rebuild(env, toolOk)
    \/ \E env \in EnvNames, saved \in EditorSaves \cup {NoFile} : edit(env, saved)
    \/ \E env \in EnvNames, resp \in Responses : delete(env, resp)
    \/ list_envs

Spec == Init /\ [][Next]_vars

----------------------------------------------------------------------------
(* start on every configuration of at most MaxWindows windows and MaxPanes   *)
(* panes.  The file of environment demo holds any of CompileContents; the   *)
(* virtualenv directory and the session may be left from an earlier start.  *)

PaneTexts == {"", "ls -l"}

PaneLists == UNION {[1..n -> PaneTexts] : n \in 0..MaxPanes}

WindowChoices ==
    {Window("Main", "", panes) : panes \in PaneLists}
    \cup {Window("Logs", "tiled", panes) : panes \in PaneLists}

RECURSIVE TotalPanes(_)
TotalPanes(windows) ==
    IF windows = <<>> THEN 0 ELSE Len(Head(windows).panes) + TotalPanes(Tail(windows))

WindowLists ==
    {w \in UNION {[1..n -> WindowChoices] : n \in 0..MaxWindows} :
        TotalPanes(w) <= MaxPanes}

CompileContents ==
    {FileContent(demo, v, "/srv/app", w) : v \in {NoVenvKey, TemplateVenv}, w \in WindowLists}

InitCompile ==
    /\ configsDir = TRUE
    /\ \E content \in CompileContents :
           files = [e \in EnvNames |-> IF e = demo THEN content ELSE NoFile]
    /\ venvDirs \in SUBSET {demo}
    /\ sessions \in SUBSET {demo}
    /\ last = NoInvocation
    /\ procs = <<>>

NextCompile == \E toolOk \in BOOLEAN, keep \in BOOLEAN : start(demo, toolOk, keep)

SpecCompile == InitCompile /\ [][NextCompile]_vars

----------------------------------------------------------------------------
(* Claims about the commands of start. *)

RECURSIVE Flatten(_)
Flatten(seqs) == IF seqs = <<>> THEN <<>> ELSE Head(seqs) \o Flatten(Tail(seqs))

RECURSIVE Sum(_)
Sum(numbers) == IF numbers = <<>> THEN 0 ELSE Head(numbers) + Sum(Tail(numbers))

IsTmux(cmd) == cmd.prog = "tmux"

TmuxCommands(cmds) == SelectSeq(cmds, IsTmux)

\* Isolation is configured: the 'virtualenv' key is there and not empty.
Isolated(config) ==
    /\ config.virtualenv.defined
    /\ config.virtualenv.python # "unset" \/ config.virtualenv.site # "unset"

StartedNew == last.op = "start" /\ last.error = "none" /\ last.probe # 0

StartedExisting == last.op = "start" /\ last.error = "none" /\ last.probe = 0

T(verb, session, window, pane, kind, text, path) ==
    [prog |-> "tmux", verb |-> verb,
     target |-> [session |-> session, window |-> window, pane |-> pane],
     arg |-> [kind |-> kind, text |-> text, path |-> path]]

Activate(session) == [root |-> "~/.virtualenvs", name |-> session, sub |-> "bin/activate"]

\* The commands the claim lists for pane p (from 0) of window w (from 0).
ClaimedPane(config, s, w, p) ==
    LET pane == config.windows[w + 1].panes[p + 1] IN
    Flatten(<<
        IF p > 0 THEN <<T("split-window", s, w, 0, "", "", NoPath)>> ELSE <<>>,
        IF Isolated(config)
        THEN <<T("send-keys", s, w, p, "source", "", Activate(s))>> ELSE <<>>,
        <<T("send-keys", s, w, p, "cd", config.root, NoPath)>>,
        IF pane # "" THEN <<T("send-keys", s, w, p, "command", pane, NoPath)>> ELSE <<>>
    >>)

ClaimedWindow(config, s, w) ==
    LET window == config.windows[w + 1] IN
    Flatten(<<
        <<T(IF w = 0 THEN "rename-window" ELSE "new-window", s, w, -1,
            "name", window.name, NoPath)>>,
        Flatten([p \in 1..Len(window.panes) |-> ClaimedPane(config, s, w, p - 1)]),
        IF window.layout # ""
        THEN <<T("select-layout", s, w, -1, "layout", window.layout, NoPath)>>
        ELSE <<>>,
        <<T("select-pane", s, w, 0, "", "", NoPath)>>
    >>)

ClaimedOrder(config) ==
    LET s == Format(config.session) IN
    Flatten(<<
        <<T("has-session", s, -1, -1, "", "", NoPath),
          T("new-session", s, -1, -1, "", "", NoPath)>>,
        IF Isolated(config)
        THEN <<T("set-environment", s, -1, -1, "venv", "", Activate(s))>> ELSE <<>>,
        Flatten([w \in 1..Len(config.windows) |-> ClaimedWindow(config, s, w - 1)]),
        <<T("attach-session", s, -1, -1, "", "", NoPath)>>
    >>)

ScenarioConfig ==
    [session |-> StrValue(demo), virtualenv |-> NoVenvKey, root |-> "/srv/app",
     windows |-> <<[name |-> "Main", layout |-> "", panes |-> <<"ls -l">>]>>]

ScenarioOrder ==
    <<T("has-session", demo, -1, -1, "", "", NoPath),
      T("new-session", demo, -1, -1, "", "", NoPath),
      T("rename-window", demo, 0, -1, "name", "Main", NoPath),
      T("send-keys", demo, 0, 0, "cd", "/srv/app", NoPath),
      T("send-keys", demo, 0, 0, "command", "ls -l", NoPath),
      T("select-pane", demo, 0, 0, "", "", NoPath),
      T("attach-session", demo, -1, -1, "", "", NoPath)>>

\* C1: when the probe finds no session, the tmux commands of start are, in
\* this order, has-session, new-session, set-environment (isolation only), per
\* window rename-window or new-window, per pane split-window (panes after the
\* first, at pane 0), send-keys source (isolation only), send-keys cd,
\* send-keys of the command (non-empty only), then select-layout (declared
\* only) and select-pane at pane 0, and attach-session last; for one window
\* Main with the pane "ls -l" these are the seven commands of ScenarioOrder.
C1_StartOrder ==
    StartedNew =>
        /\ TmuxCommands(last.cmds) = ClaimedOrder(last.config)
        /\ last.config = ScenarioConfig => last.cmds = ScenarioOrder

\* start has run every clause of the order: isolation, a second window, a
\* layout, a split, an empty and a non-empty pane.
C1_Witness ==
    /\ StartedNew
    /\ Isolated(last.config)
    /\ Len(last.config.windows) = 2
    /\ \E w \in 1..2 :
           /\ last.config.windows[w].layout # ""
           /\ Len(last.config.windows[w].panes) = 2
           /\ last.config.windows[w].panes[1] = ""
           /\ last.config.windows[w].panes[2] # ""
    /\ Len(TmuxCommands(last.cmds)) = Len(last.cmds) - 1

NonEmptyPanes(window) ==
    Cardinality({p \in 1..Len(window.panes) : window.panes[p] # ""})

\* The number of commands the claim gives for one window, with P - 1 splits.
ClaimedWindowCount(config, window) ==
    1 + (Len(window.panes) - 1)
      + Len(window.panes) * (1 + (IF Isolated(config) THEN 1 ELSE 0))
      + NonEmptyPanes(window)
      + (IF window.layout # "" THEN 1 ELSE 0) + 1

\* The same with no split for a window without panes.
AmendedWindowCount(config, window) ==
    1 + (IF Len(window.panes) = 0 THEN 0 ELSE Len(window.panes) - 1)
      + Len(window.panes) * (1 + (IF Isolated(config) THEN 1 ELSE 0))
      + NonEmptyPanes(window)
      + (IF window.layout # "" THEN 1 ELSE 0) + 1

CommandsAfterProbeCount == Len(TmuxCommands(last.cmds)) - 1

\* C2 as stated: after the probe start issues 1 + [isolation] + the sum over
\* the windows of ClaimedWindowCount + 1 commands, windows without panes
\* included.
C2_CountAsClaimed ==
    StartedNew =>
        CommandsAfterProbeCount =
            1 + (IF Isolated(last.config) THEN 1 ELSE 0)
              + Sum([w \in 1..Len(last.config.windows) |->
                        ClaimedWindowCount(last.config, last.config.windows[w])])
              + 1

\* C2 amended: the same count with max(P_i - 1, 0) splits for window i, so
\* that a window without panes counts its rename/new-window, its layout and
\* its select-pane.
C2_Count ==
    StartedNew =>
        CommandsAfterProbeCount =
            1 + (IF Isolated(last.config) THEN 1 ELSE 0)
              + Sum([w \in 1..Len(last.config.windows) |->
                        AmendedWindowCount(last.config, last.config.windows[w])])
              + 1

\* start has counted a window without panes beside one with a split, with
\* isolation and an empty pane.
C2_Witness ==
    /\ StartedNew
    /\ Isolated(last.config)
    /\ Len(last.config.windows) = 2
    /\ \E w \in 1..2 : Len(last.config.windows[w].panes) = 0
    /\ \E w \in 1..2 : /\ Len(last.config.windows[w].panes) >= 2
                       /\ \E p \in 1..2 : last.config.windows[w].panes[p] = ""

\* C3 as stated: when the probe finds the session, start issues two commands
\* in all, the probe and one attach-session.
C3_TwoCommandsInAll ==
    StartedExisting =>
        last.cmds = <<T("has-session", Format(last.config.session), -1, -1, "", "", NoPath),
                      T("attach-session", Format(last.config.session), -1, -1, "", "", NoPath)>>

VenvDirMissingBefore ==
    Isolated(last.config) /\ last.config.session.str \notin last.before.venvDirs

\* C3 amended: when the probe finds the session, the tmux commands of start
\* are the probe and one attach-session and no other; before the probe start
\* runs the virtualenv tool once when isolation is configured and its
\* directory does not exist, and nothing otherwise.
C3_ExistingSession ==
    StartedExisting =>
        /\ TmuxCommands(last.cmds) =
               <<T("has-session", Format(last.config.session), -1, -1, "", "", NoPath),
                 T("attach-session", Format(last.config.session), -1, -1, "", "", NoPath)>>
        /\ Len(last.cmds) = IF VenvDirMissingBefore THEN 3 ELSE 2
        /\ VenvDirMissingBefore => last.cmds[1].prog = "virtualenv"

\* start has attached to a session that was there, for a configuration with
\* windows and isolation whose directory was missing.
C3_Witness ==
    /\ StartedExisting
    /\ VenvDirMissingBefore
    /\ Len(last.config.windows) = 2
    /\ Format(last.config.session) \in last.before.sessions

----------------------------------------------------------------------------
(* Claims about the virtualenv, the files and delete. *)

Resolved == last.op \in {"start", "rebuild"} /\ last.before.files[last.env].exists

IsVirtualenv(cmd) == cmd.prog = "virtualenv"

VirtualenvCommands(cmds) == SelectSeq(cmds, IsVirtualenv)

FilesystemUnchanged ==
    /\ configsDir = last.before.configsDir
    /\ files = last.before.files
    /\ venvDirs = last.before.venvDirs

\* C4 as stated: with isolation configured and no directory
\* ~/.virtualenvs/<session name>, confirm_virtualenv, from start and from
\* rebuild, runs the virtualenv tool once, with the configured interpreter
\* (default /usr/bin/python), the flag of 'site packages?' and that directory.
\* Stated for the session names that are strings.
C4_VirtualenvOnce ==
    (/\ Resolved
     /\ Isolated(last.config)
     /\ last.config.session.type = "str"
     /\ Format(last.config.session) \notin last.before.venvDirs)
    => VirtualenvCommands(last.cmds) =
          <<[prog |-> "virtualenv", verb |-> "-p", target |-> NoTarget,
             arg |-> [kind |-> IF last.config.virtualenv.site = "true"
                               THEN "--system-site-packages"
                               ELSE "--no-site-packages",
                      text |-> IF last.config.virtualenv.python = Unset
                               THEN "/usr/bin/python"
                               ELSE last.config.virtualenv.python,
                      path |-> [root |-> "~/.virtualenvs",
                                name |-> Format(last.config.session),
                                sub |-> ""]]]>>

\* C5: without isolation (no 'virtualenv' key, or an empty one)
\* confirm_virtualenv does nothing, for both values of delete_first and
\* whether or not the directory of the session name exists: no command, and
\* the directories and files as they were.
C5_NoIsolationNoOp ==
    /\ \A env \in EnvNames, delete_first \in BOOLEAN, toolOk \in BOOLEAN :
           (files[env].exists /\ ~Isolated(YamlLoad(files[env])))
           => confirm_virtualenv(YamlLoad(files[env]), delete_first, venvDirs, toolOk)
                  = [cmds |-> <<>>, venvDirs |-> venvDirs, error |-> "none"]
    /\ (Resolved /\ ~Isolated(last.config))
       => /\ VirtualenvCommands(last.cmds) = <<>>
          /\ last.error = "none"
          /\ FilesystemUnchanged

\* rebuild has run on an environment with an empty 'virtualenv' key whose
\* session name has a directory.
C5_Witness ==
    /\ last.op = "rebuild"
    /\ Resolved
    /\ last.config.virtualenv = EmptyVenv
    /\ Format(last.config.session) \in last.before.venvDirs

DeletedWithoutVenv == last.op = "del" /\ last.env \notin last.before.venvDirs

\* C6: delete(env) with no directory ~/.virtualenvs/<env> shows no prompt,
\* removes the file of env and no other file or virtualenv directory, and
\* removes ~/.tenper exactly when it is then empty.
C6_DeleteFrame ==
    DeletedWithoutVenv =>
        /\ last.prompts = <<>>
        /\ files = [last.before.files EXCEPT ![last.env] = [exists |-> FALSE]]
        /\ venvDirs = last.before.venvDirs
        /\ (last.before.configsDir /\ ~configsDir)
           <=> (last.before.configsDir /\ \A e \in EnvNames : ~files[e].exists)

\* delete has removed one of two files, with a virtualenv directory of
\* another name around.
C6_Witness ==
    /\ DeletedWithoutVenv
    /\ last.before.files[last.env].exists
    /\ \E e \in EnvNames : files[e].exists
    /\ venvDirs # {}
    /\ configsDir

\* C7: start and rebuild on a name without a file fail with the not-found
\* error naming ~/.tenper/<name>.yml, run no command and change nothing.
C7_ConfigNotFound ==
    (last.op \in {"start", "rebuild"} /\ ~last.before.files[last.env].exists)
    => /\ last.error = "ConfigNotFound"
       /\ last.checked = [root |-> "~/.tenper", name |-> last.env, sub |-> ".yml"]
       /\ last.cmds = <<>>
       /\ FilesystemUnchanged
       /\ sessions = last.before.sessions

\* start has failed on an unknown name while files, directories and
\* sessions of other names exist.
C7_Witness ==
    /\ last.op = "start"
    /\ last.error = "ConfigNotFound"
    /\ last.before.venvDirs # {}
    /\ last.before.sessions # {}
    /\ last.before.configsDir

EditedUntouched == last.op = "edit" /\ last.output = {}

WindowNames(windows) == [w \in 1..Len(windows) |-> windows[w].name]

\* C8: edit of a name without a file, the editor leaving the file alone,
\* then config_for gives the template's defaults: a session name equal to
\* the environment name, the home directory ($HOME) as project root and the
\* windows One and Two; a second edit does not overwrite the file.
C8_EditRoundTrip ==
    /\ (EditedUntouched /\ ~last.before.files[last.env].exists)
       => LET found == config_for(files, last.env) IN
          /\ found.error = "none"
          /\ found.config.session = [type |-> "str", str |-> last.env, int |-> 0]
          /\ found.config.root = "$HOME"
          /\ WindowNames(found.config.windows) = <<"One", "Two">>
    /\ (EditedUntouched /\ last.before.files[last.env].exists)
       => files[last.env] = last.before.files[last.env]

\* C9: delete(env), after start or rebuild made the directory of an
\* environment with isolation, prompts, and with an affirmative answer
\* leaves neither the file nor that directory, also when the session name
\* is not the environment name.
C9_DeleteDestroys ==
    (/\ last.op = "del"
     /\ last.before.files[last.env].exists
     /\ Isolated(YamlLoad(last.before.files[last.env]))
     /\ Format(YamlLoad(last.before.files[last.env]).session) \in last.before.venvDirs)
    => /\ last.prompts # <<>>
       /\ Strip(last.resp) \in Affirmative
          => /\ ~files[last.env].exists
             /\ Format(YamlLoad(last.before.files[last.env]).session) \notin venvDirs

----------------------------------------------------------------------------
(* Concurrent invocations of start(demo), one command of tmux at a time.    *)
(* Each invocation is its own process; what they share is the file system   *)
(* and the tmux server.                                                     *)

Procs == 1..NumProcs

IdleProc ==
    [pc |-> "idle", config |-> NoConfig, probe |-> -1, created |-> -1,
     todo |-> <<>>, issued |-> <<>>]

RaceContents ==
    {FileContent(demo, NoVenvKey, "/srv/app", <<MainWindow>>),
     FileContent(demo, SiteOnlyVenv, "/srv/app",
                 <<MainWindow, Window("Logs", "tiled", <<"", "top">>)>>)}

\* Lines 199-200: config_for and confirm_virtualenv.
RaceBegin(p, toolOk) ==
    LET found == config_for(files, demo)
        confirm == confirm_virtualenv(found.config, FALSE, venvDirs, toolOk)
        failed == found.error # "none" \/ confirm.error # "none"
    IN  /\ procs[p].pc = "idle"
        /\ venvDirs' = IF found.error = "none" THEN confirm.venvDirs ELSE venvDirs
        /\ procs' = [procs EXCEPT ![p] =
                        [@ EXCEPT !.pc = IF failed THEN "failed" ELSE "probe",
                                  !.config = found.config,
                                  !.issued = IF failed THEN <<>> ELSE confirm.cmds]]
        /\ UNCHANGED <<configsDir, files, sessions, last>>

\* Line 206: the has-session probe and the branch on its exit code.
RaceProbe(p) ==
    LET config == procs[p].config
        code == HasSession(sessions, Format(config.session))
    IN  /\ procs[p].pc = "probe"
        /\ procs' = [procs EXCEPT ![p] =
                        [@ EXCEPT !.pc = "run",
                                  !.probe = code,
                                  !.issued = Append(@, ProbeCommand(config)),
                                  !.todo = CommandsAfterProbe(config, code)]]
        /\ UNCHANGED <<configsDir, files, venvDirs, sessions, last>>

\* Lines 213-273: the next command of the invocation.
RaceRun(p, keep) ==
    LET config == procs[p].config
        cmd == Head(procs[p].todo)
        isNew == cmd.verb = "new-session"
        code == IF isNew THEN NewSessionCode(sessions, cmd.target.session) ELSE 0
        rest == IF isNew /\ procs[p].probe # 0
                THEN Tail(procs[p].todo) \o AfterNewSession(code, SessionSetup(config))
                ELSE Tail(procs[p].todo)
    IN  /\ procs[p].pc = "run"
        /\ procs[p].todo # <<>>
        /\ sessions' = TmuxEffect(sessions, cmd, keep)
        /\ procs' = [procs EXCEPT ![p] =
                        [@ EXCEPT !.pc = IF rest = <<>> THEN "done" ELSE "run",
                                  !.created = IF isNew THEN code ELSE @,
                                  !.issued = Append(@, cmd),
                                  !.todo = rest]]
        /\ UNCHANGED <<configsDir, files, venvDirs, last>>

InitRace ==
    /\ configsDir = TRUE
    /\ \E content \in RaceContents :
           files = [e \in EnvNames |-> IF e = demo THEN content ELSE NoFile]
    /\ venvDirs = {}
    /\ sessions = {}
    /\ last = NoInvocation
    /\ procs = [p \in Procs |-> IdleProc]

NextRace ==
    \/ \E p \in Procs, toolOk \in BOOLEAN : RaceBegin(p, toolOk)
    \/ \E p \in Procs : RaceProbe(p)
    \/ \E p \in Procs, keep \in BOOLEAN : RaceRun(p, keep)

SpecRace == InitRace /\ [][NextRace]_vars

\* C10: nothing keeps two concurrent start(demo) apart: an invocation whose
\* probe found no session issues new-session and every command after it,
\* whatever the others did in between and whatever new-session answered, so
\* that two invocations can both create the session and set its windows up.
C10_NoCoordination ==
    \A p \in Procs :
        (procs[p].pc = "done" /\ procs[p].probe # 0)
        => TmuxCommands(procs[p].issued) = ClaimedOrder(procs[p].config)

\* Two invocations whose probes both found no session have both issued
\* new-session and the window commands for the same session name; the
\* second new-session failed on the duplicate name.
C10_Witness ==
    \E p, q \in Procs :
        /\ p # q
        /\ procs[p].probe = 1 /\ procs[q].probe = 1
        /\ procs[p].pc = "done" /\ procs[q].pc = "done"
        /\ procs[p].created = 0 /\ procs[q].created = 1
        /\ procs[p].config.session = procs[q].config.session
        /\ \E i \in 1..Len(procs[q].issued) : procs[q].issued[i].verb = "rename-window"
        /\ \E i \in 1..Len(procs[p].issued) : procs[p].issued[i].verb = "rename-window"

============================================================================
